---------------------------- MODULE Spec2Model ----------------------------
(***************************************************************************)
(* Extended twisted Edwards point arithmetic of src/jubjub/edwards.rs      *)
(* (Point, its group law, scalar multiplication, the Montgomery mapping,   *)
(* subgroup verification and cofactor clearing, random sampling).          *)
(*                                                                         *)
(* The engine E is instantiated with a small member of the curve family:   *)
(* E::Fr = GF(17), the curve -x^2 + y^2 = 1 + 7 x^2 y^2 (d = 7 is a        *)
(* non-square, -1 = 4^2 is a square, exactly as for Jubjub), which has     *)
(* 24 = 8 * 3 points: cofactor 8 and prime subgroup order E::Fs::char = 3. *)
(* Its Montgomery form is y^2 = x^3 + 7 x^2 + x with scale s = 5           *)
(* (s^2 = -(A + 2), d = -(A - 2)/(A + 2)).                                 *)
(***************************************************************************)
EXTENDS Integers, FiniteSets, Sequences, TLC

VARIABLES p, op, arg, out

vars == <<p, op, arg, out>>

(***************************************************************************)
(* Engine parameters (E::Fr, E::Fs, E::Params).                            *)
(***************************************************************************)
\* characteristic of the base field E::Fr
FrModulus == 17

\* params.edwards_d()
edwards_d == 7

\* params.scale(), the Montgomery-to-Edwards scale factor
scale == 5

\* coefficient A of the Montgomery form y^2 = x^3 + A x^2 + x
montgomery_a == 7

\* E::Fs::char(), the order of the prime-order subgroup
FsChar == 3

\* width in bits of <E::Fs as PrimeField>::Repr, over which BitIterator runs
ScalarBits == 3

\* largest projective scaling used when three points are drawn at once
MaxScale == 3

Fr == 0 .. (FrModulus - 1)

Scalars == 0 .. (2 ^ ScalarBits - 1)

Tags == {"Unknown", "PrimeOrder"}

(***************************************************************************)
(* Option<T>: None is the empty set, Some(v) the singleton {v}.            *)
(***************************************************************************)
None == {}

Some(v) == {v}

unwrap(o) == CHOOSE v \in o : TRUE

(***************************************************************************)
(* The field capability E::Fr (pairing::Field, SqrtField, PrimeField).     *)
(***************************************************************************)
add_assign(a, b) == (a + b) % FrModulus

sub_assign(a, b) == (a + FrModulus - b) % FrModulus

mul_assign(a, b) == (a * b) % FrModulus

square(a) == (a * a) % FrModulus

fr_negate(a) == (FrModulus - a) % FrModulus

\* Field::inverse: None exactly on the additive identity
inverse(a) ==
    IF a = 0 THEN None
    ELSE Some(CHOOSE b \in Fr : (a * b) % FrModulus = 1)

\* the square roots of a; SqrtField::sqrt returns one of them (which one is
\* up to the field implementation) or None when there is none
sqrts(a) == {y \in Fr : (y * y) % FrModulus = a}

\* PrimeFieldRepr::is_odd of into_repr(), the canonical representative
is_odd(a) == a % 2 = 1

(***************************************************************************)
(* Point<E, Subgroup>: four field elements and the phantom subgroup tag.   *)
(***************************************************************************)
Point(x, y, t, z, tag) == [x |-> x, y |-> y, t |-> t, z |-> z, tag |-> tag]

convert_subgroup(from, tag) == Point(from.x, from.y, from.t, from.z, tag)

zero(tag) == Point(0, 1, 0, 1, tag)

\* eq that multiplies each side by its own z
eq_own_z(self, other) ==
    LET x1 == mul_assign(self.x, self.z)
        y1 == mul_assign(self.y, self.z)
        x2 == mul_assign(other.x, other.z)
        y2 == mul_assign(other.y, other.z)
    IN  x1 = x2 /\ y1 = y2

eq(self, other) ==
    LET x1 == mul_assign(self.x, other.z)
        y1 == mul_assign(self.y, other.z)
        x2 == mul_assign(other.x, self.z)
        y2 == mul_assign(other.y, self.z)
    IN  x1 = x2 /\ y1 = y2

\* into_xy unwraps the inverse of z: a panic when z = 0
into_xy(self) ==
    LET zinv == inverse(self.z)
    IN  IF zinv = None
        THEN [panicked |-> TRUE, x |-> 0, y |-> 0]
        ELSE [panicked |-> FALSE,
              x |-> mul_assign(self.x, unwrap(zinv)),
              y |-> mul_assign(self.y, unwrap(zinv))]

\* negate that forgets the auxiliary coordinate
negate_keeps_t(self) ==
    Point(fr_negate(self.x), self.y, self.t, self.z, self.tag)

negate(self) ==
    Point(fr_negate(self.x), self.y, fr_negate(self.t), self.z, self.tag)

\* add with T3 = E*G in place of E*H
add_t_from_g(self, other) ==
    LET a == mul_assign(self.x, other.x)
        b == mul_assign(self.y, other.y)
        c == mul_assign(mul_assign(edwards_d, self.t), other.t)
        d == mul_assign(self.z, other.z)
        h == add_assign(b, a)
        e == sub_assign(mul_assign(add_assign(self.x, self.y),
                                   add_assign(other.x, other.y)), h)
        f == sub_assign(d, c)
        g == add_assign(d, c)
    IN  Point(mul_assign(e, f), mul_assign(g, h),
              mul_assign(e, g), mul_assign(f, g), self.tag)

\* add with H = B - A, the law of the curve with a = 1
add_h_minus(self, other) ==
    LET a == mul_assign(self.x, other.x)
        b == mul_assign(self.y, other.y)
        c == mul_assign(mul_assign(edwards_d, self.t), other.t)
        d == mul_assign(self.z, other.z)
        h == sub_assign(b, a)
        e == sub_assign(mul_assign(add_assign(self.x, self.y),
                                   add_assign(other.x, other.y)), add_assign(b, a))
        f == sub_assign(d, c)
        g == add_assign(d, c)
    IN  Point(mul_assign(e, f), mul_assign(g, h),
              mul_assign(e, h), mul_assign(f, g), self.tag)

add(self, other) ==
    LET a == mul_assign(self.x, other.x)
        b == mul_assign(self.y, other.y)
        c == mul_assign(mul_assign(edwards_d, self.t), other.t)
        d == mul_assign(self.z, other.z)
        h == add_assign(b, a)
        e == sub_assign(mul_assign(add_assign(self.x, self.y),
                                   add_assign(other.x, other.y)), h)
        f == sub_assign(d, c)
        g == add_assign(d, c)
    IN  Point(mul_assign(e, f), mul_assign(g, h),
              mul_assign(e, h), mul_assign(f, g), self.tag)

double(self) == add(self, self)

\* BitIterator::new(scalar): the ScalarBits bits of the representation,
\* most significant first
BitIterator(scalar) ==
    [i \in 1 .. ScalarBits |-> (scalar \div (2 ^ (ScalarBits - i))) % 2 = 1]

\* the loop body adding before it doubles
mul_iter_add_first(res, self, b) ==
    IF b THEN double(add(res, self)) ELSE double(res)

\* one iteration of the loop of mul
mul_iter(res, self, b) ==
    LET dbl == double(res)
    IN  IF b THEN add(dbl, self) ELSE dbl

RECURSIVE mul_loop(_, _, _, _)
mul_loop(res, self, bits, i) ==
    IF i > Len(bits) THEN res
    ELSE mul_loop(mul_iter(res, self, bits[i]), self, bits, i + 1)

\* mul with the accumulator starting at the base point
mul_from_self(self, scalar) == mul_loop(self, self, BitIterator(scalar), 1)

mul(self, scalar) == mul_loop(zero(self.tag), self, BitIterator(scalar), 1)

\* mul_by_cofactor with two doublings
mul_by_cofactor_two_doublings(self) ==
    LET tmp == double(double(self))
    IN  convert_subgroup(tmp, "PrimeOrder")

mul_by_cofactor(self) ==
    LET tmp == double(double(double(self)))
    IN  convert_subgroup(tmp, "PrimeOrder")

\* as_prime_order handing back the product it tested
as_prime_order_returns_product(self) ==
    IF eq(mul(self, FsChar), zero(self.tag))
    THEN Some(convert_subgroup(mul(self, FsChar), "PrimeOrder"))
    ELSE None

as_prime_order(self) ==
    IF eq(mul(self, FsChar), zero(self.tag))
    THEN Some(convert_subgroup(self, "PrimeOrder"))
    ELSE None

(***************************************************************************)
(* rand: one pass of the rejection loop.  rand_candidate is the value      *)
(* num/den = (1 + x^2)/(1 - d x^2) of a sampled x, None when den has no    *)
(* inverse; rand_point builds the returned point from x, the root y0 that  *)
(* sqrt returned and the fresh random bit.                                 *)
(***************************************************************************)
rand_candidate(x) ==
    LET x2 == square(x)
        num == add_assign(1, x2)
        den == sub_assign(1, mul_assign(x2, edwards_d))
        invden == inverse(den)
    IN  IF invden = None THEN None
        ELSE Some(mul_assign(num, unwrap(invden)))

\* rand keeping the root sqrt returned
rand_point_keeps_root(x, y0, bit) ==
    Point(x, y0, mul_assign(x, y0), 1, "Unknown")

rand_point(x, y0, bit) ==
    LET y == IF is_odd(y0) # bit THEN fr_negate(y0) ELSE y0
    IN  Point(x, y, mul_assign(x, y), 1, "Unknown")

(***************************************************************************)
(* montgomery::Point, the collaborator: affine (x, y) or the point at      *)
(* infinity, carrying the same subgroup tag.                               *)
(***************************************************************************)
MPoint(x, y, infinity) == [x |-> x, y |-> y, infinity |-> infinity]

MInfinity == MPoint(0, 0, TRUE)

\* montgomery::Point::into_xy
mont_into_xy(m) == IF m.infinity THEN None ELSE Some(<<m.x, m.y>>)

\* y^2 = x^3 + A x^2 + x
OnMontgomery(x, y) ==
    square(y) = add_assign(add_assign(mul_assign(square(x), x),
                                      mul_assign(montgomery_a, square(x))), x)

fr_div(a, b) == mul_assign(a, unwrap(inverse(b)))

\* the affine group law of the Montgomery curve
mont_add(m, n) ==
    IF m.infinity THEN n
    ELSE IF n.infinity THEN m
    ELSE IF m.x = n.x /\ m.y = fr_negate(n.y) THEN MInfinity
    ELSE LET lambda ==
                 IF m.x = n.x
                 THEN fr_div(add_assign(add_assign(mul_assign(3, square(m.x)),
                                 mul_assign(mul_assign(2, montgomery_a), m.x)), 1),
                             mul_assign(2, m.y))
                 ELSE fr_div(sub_assign(n.y, m.y), sub_assign(n.x, m.x))
             x3 == sub_assign(sub_assign(sub_assign(square(lambda), montgomery_a),
                                         m.x), n.x)
             y3 == sub_assign(mul_assign(lambda, sub_assign(m.x, x3)), m.y)
         IN  MPoint(x3, y3, FALSE)

RECURSIVE mont_times(_, _)
mont_times(m, k) == IF k = 0 THEN MInfinity ELSE mont_add(mont_times(m, k - 1), m)

MontgomeryCurve ==
    {MInfinity} \cup
    {MPoint(x, y, FALSE) : <<x, y>> \in {xy \in Fr \X Fr : OnMontgomery(xy[1], xy[2])}}

\* the Montgomery points a montgomery::Point<E, tag> can hold
MontgomeryPoints(tag) ==
    IF tag = "Unknown" THEN MontgomeryCurve
    ELSE {m \in MontgomeryCurve : mont_times(m, FsChar) = MInfinity}

\* from_montgomery without the scale factor
from_montgomery_unscaled(m, tag) ==
    LET xy == mont_into_xy(m)
    IN  IF xy = None THEN zero(tag)
        ELSE LET x == unwrap(xy)[1]
                 y == unwrap(xy)[2]
             IN  IF y = 0
                 THEN Point(0, fr_negate(1), 0, 1, tag)
                 ELSE LET u0 == x
                          v0 == sub_assign(x, 1)
                          t == mul_assign(u0, v0)
                          z0 == add_assign(x, 1)
                          u == mul_assign(u0, z0)
                          z == mul_assign(z0, y)
                          v == mul_assign(v0, y)
                      IN  Point(u, v, t, z, tag)

from_montgomery(m, tag) ==
    LET xy == mont_into_xy(m)
    IN  IF xy = None THEN zero(tag)
        ELSE LET x == unwrap(xy)[1]
                 y == unwrap(xy)[2]
             IN  IF y = 0
                 THEN Point(0, fr_negate(1), 0, 1, tag)
                 ELSE LET u0 == mul_assign(x, scale)
                          v0 == sub_assign(x, 1)
                          t == mul_assign(u0, v0)
                          z0 == add_assign(x, 1)
                          u == mul_assign(u0, z0)
                          z == mul_assign(z0, y)
                          v == mul_assign(v0, y)
                      IN  Point(u, v, t, z, tag)

(***************************************************************************)
(* The values a Point<E, tag> can hold: every extended representation      *)
(* (x l, y l, x y l, l), l # 0, of an affine point (x, y) of the curve     *)
(* -x^2 + y^2 = 1 + d x^2 y^2, the prime-order ones being those that the   *)
(* subgroup order sends to the identity.  KFold is the k-fold sum under    *)
(* add, the reference against which mul is compared.                       *)
(***************************************************************************)
OnEdwards(x, y) ==
    sub_assign(square(y), square(x)) =
        add_assign(1, mul_assign(edwards_d, mul_assign(square(x), square(y))))

Extended(x, y, l, tag) ==
    Point(mul_assign(x, l), mul_assign(y, l),
          mul_assign(mul_assign(x, y), l), l, tag)

RECURSIVE KFold(_, _)
KFold(P, k) == IF k = 0 THEN zero(P.tag) ELSE add(KFold(P, k - 1), P)

InPrimeSubgroup(P) == eq(KFold(P, FsChar), zero(P.tag))

EdwardsAffine(tag) ==
    {xy \in Fr \X Fr :
        /\ OnEdwards(xy[1], xy[2])
        /\ tag = "PrimeOrder" => InPrimeSubgroup(Extended(xy[1], xy[2], 1, tag))}

ScaledPoints(tag, scales) ==
    {Extended(c[1][1], c[1][2], c[2], tag) : c \in EdwardsAffine(tag) \X scales}

UnknownPoints == ScaledPoints("Unknown", 1 .. (FrModulus - 1))

PrimeOrderPoints == ScaledPoints("PrimeOrder", 1 .. (FrModulus - 1))

Points(tag) == IF tag = "Unknown" THEN UnknownPoints ELSE PrimeOrderPoints

(***************************************************************************)
(* Spec: the operations of the core applied, in any order, to the point    *)
(* held in p.  op names the last operation, arg its inputs other than p,   *)
(* out what it returned when that is not a point to go on with.  The       *)
(* second operand of add is any value of Points(p.tag); each of these      *)
(* 384 + 48 values is itself reached in p by the operations below.         *)
(***************************************************************************)
NoArg == <<>>

NoOut == <<>>

Init ==
    /\ \E tag \in Tags : p = zero(tag)
    /\ op = "zero"
    /\ arg = NoArg
    /\ out = NoOut

Zero ==
    /\ \E tag \in Tags : p' = zero(tag)
    /\ op' = "zero"
    /\ arg' = NoArg
    /\ out' = NoOut

Rand ==
    /\ \E x \in Fr, bit \in BOOLEAN :
          /\ rand_candidate(x) # None
          /\ \E y0 \in sqrts(unwrap(rand_candidate(x))) :
                /\ p' = rand_point(x, y0, bit)
                /\ arg' = [x |-> x, bit |-> bit]
    /\ op' = "rand"
    /\ out' = NoOut

FromMontgomery ==
    /\ \E tag \in Tags : \E m \in MontgomeryPoints(tag) :
          /\ p' = from_montgomery(m, tag)
          /\ arg' = m
    /\ op' = "from_montgomery"
    /\ out' = NoOut

Add ==
    /\ \E other \in Points(p.tag) : p' = add(p, other)
    /\ op' = "add"
    /\ arg' = NoArg
    /\ out' = NoOut

Double ==
    /\ p' = double(p)
    /\ op' = "double"
    /\ arg' = NoArg
    /\ out' = NoOut

Negate ==
    /\ p' = negate(p)
    /\ op' = "negate"
    /\ arg' = NoArg
    /\ out' = NoOut

Mul ==
    /\ \E scalar \in Scalars : p' = mul(p, scalar)
    /\ op' = "mul"
    /\ arg' = NoArg
    /\ out' = NoOut

MulByCofactor ==
    /\ p.tag = "Unknown"
    /\ p' = mul_by_cofactor(p)
    /\ op' = "mul_by_cofactor"
    /\ arg' = p
    /\ out' = NoOut

\* as_prime_order borrows the point: p stays, the Option goes to out
AsPrimeOrder ==
    /\ out' = as_prime_order(p)
    /\ op' = "as_prime_order"
    /\ arg' = NoArg
    /\ UNCHANGED p

\* the caller goes on with the point inside Some(..)
TakePrimeOrder ==
    /\ op = "as_prime_order"
    /\ out # None
    /\ p' = unwrap(out)
    /\ op' = "take"
    /\ arg' = NoArg
    /\ out' = NoOut

\* From<Point<E, PrimeOrder>> for Point<E, Unknown>
Widen ==
    /\ p.tag = "PrimeOrder"
    /\ p' = convert_subgroup(p, "Unknown")
    /\ op' = "from"
    /\ arg' = NoArg
    /\ out' = NoOut

IntoXY ==
    /\ out' = into_xy(p)
    /\ op' = "into_xy"
    /\ arg' = NoArg
    /\ UNCHANGED p

Next ==
    \/ Zero
    \/ Rand
    \/ FromMontgomery
    \/ Add
    \/ Double
    \/ Negate
    \/ Mul
    \/ MulByCofactor
    \/ AsPrimeOrder
    \/ TakePrimeOrder
    \/ Widen
    \/ IntoXY

Spec == Init /\ [][Next]_vars

(***************************************************************************)
(* Claims checked under Spec.                                              *)
(***************************************************************************)

\* C1: clearing the cofactor lands in the prime-order subgroup: whatever
\* Unknown point mul_by_cofactor was applied to (the identity and the
\* small-order points included), as_prime_order of its result is Some.
C1_CofactorClearingLandsInSubgroup ==
    op = "mul_by_cofactor" =>
        /\ p = convert_subgroup(double(double(double(arg))), "PrimeOrder")
        /\ as_prime_order(p) # None
        /\ eq(mul(p, FsChar), zero(p.tag))

\* C1 witness: the cofactor was cleared from a point outside the subgroup
\* and the result is not the identity.
C1_Witness ==
    /\ op = "mul_by_cofactor"
    /\ arg.tag = "Unknown"
    /\ ~InPrimeSubgroup(arg)
    /\ ~eq(p, zero(p.tag))

\* C2: as_prime_order returns Some exactly when the subgroup order sends
\* the point to the identity, None otherwise; the point inside Some has
\* the four coordinates of the original and the PrimeOrder tag, so a point
\* of the prime-order subgroup comes back equal to itself.
C2_AsPrimeOrderVerifies ==
    op = "as_prime_order" =>
        /\ (out # None) <=> eq(mul(p, FsChar), zero(p.tag))
        /\ (out # None) <=> InPrimeSubgroup(p)
        /\ out # None =>
              /\ out = Some(Point(p.x, p.y, p.t, p.z, "PrimeOrder"))
              /\ eq(unwrap(out), convert_subgroup(p, "PrimeOrder"))
        /\ p.tag = "PrimeOrder" => out = Some(p)

\* C2 witness: a verification that succeeded on a scaled, non-identity
\* point whose tag was Unknown.
C2_Witness ==
    /\ op = "as_prime_order"
    /\ p.tag = "Unknown"
    /\ out # None
    /\ p.z # 1
    /\ ~eq(p, zero(p.tag))

\* C3: every point the operations produce has Z # 0 and T*Z = X*Y, so
\* into_xy never panics.
C3_ExtendedInvariant ==
    /\ p.z # 0
    /\ mul_assign(p.t, p.z) = mul_assign(p.x, p.y)
    /\ op = "as_prime_order" /\ out # None =>
          /\ unwrap(out).z # 0
          /\ mul_assign(unwrap(out).t, unwrap(out).z)
                = mul_assign(unwrap(out).x, unwrap(out).y)
    /\ op = "into_xy" => ~out.panicked

\* C3 witness: into_xy was taken of a point with Z other than 1 and
\* non-zero X, Y and T.
C3_Witness ==
    /\ op = "into_xy"
    /\ ~out.panicked
    /\ p.z # 1
    /\ p.x # 0
    /\ p.y # 0
    /\ p.t # 0

\* C8: from_montgomery is a total case analysis: infinity maps to the
\* identity; y = 0 maps to (0, -1, 0, 1), whose affine image is (0, -1);
\* y # 0 maps to (x s (x+1), y (x-1), x s (x-1), y (x+1)), which for
\* x # -1 has Z # 0, T*Z = X*Y and affine image (s x / y, (x-1)/(x+1)).
C8_FromMontgomeryCases ==
    op = "from_montgomery" =>
        LET x == arg.x
            y == arg.y
            s == scale
            m1 == fr_negate(1)
        IN  /\ arg.infinity => p = Point(0, 1, 0, 1, p.tag)
            /\ ~arg.infinity /\ y = 0 =>
                  /\ p = Point(0, m1, 0, 1, p.tag)
                  /\ into_xy(p) = [panicked |-> FALSE, x |-> 0, y |-> m1]
            /\ ~arg.infinity /\ y # 0 =>
                  /\ p.x = (x * s * (x + 1)) % FrModulus
                  /\ p.y = (y * (x + FrModulus - 1)) % FrModulus
                  /\ p.t = (x * s * (x + FrModulus - 1)) % FrModulus
                  /\ p.z = (y * (x + 1)) % FrModulus
                  /\ x # m1 =>
                        /\ p.z # 0
                        /\ (p.t * p.z) % FrModulus = (p.x * p.y) % FrModulus
                        /\ ~into_xy(p).panicked
                        /\ (into_xy(p).x * y) % FrModulus = (s * x) % FrModulus
                        /\ (into_xy(p).y * (x + 1)) % FrModulus
                              = (x + FrModulus - 1) % FrModulus

\* C8 witness: the general case was taken, on a Montgomery point with
\* x # 0 and y # 0.
C8_Witness ==
    /\ op = "from_montgomery"
    /\ ~arg.infinity
    /\ arg.y # 0
    /\ arg.x # 0
    /\ p.x # 0
    /\ p.z # 1

\* C10 as stated: whenever rand returns, the point is (x, y, x*y, 1) with
\* y^2 = (1 + x^2)/(1 - d x^2) and the parity of y equals the random bit,
\* for every accepted x and every bit.
C10_ParityAlwaysMatchesBit ==
    op = "rand" =>
        /\ p = Point(arg.x, p.y, (arg.x * p.y) % FrModulus, 1, "Unknown")
        /\ (p.y * p.y * (1 + FrModulus * FrModulus - edwards_d * arg.x * arg.x))
              % FrModulus = (1 + arg.x * arg.x) % FrModulus
        /\ is_odd(p.y) = arg.bit

\* C10 amended: the same, the parity of y matching the bit whenever
\* y # 0; for y = 0 (x^2 = -1) the point (x, 0, 0, 1) is returned for
\* either bit.
C10_ParityMatchesBitUnlessYZero ==
    op = "rand" =>
        /\ p = Point(arg.x, p.y, (arg.x * p.y) % FrModulus, 1, "Unknown")
        /\ (p.y * p.y * (1 + FrModulus * FrModulus - edwards_d * arg.x * arg.x))
              % FrModulus = (1 + arg.x * arg.x) % FrModulus
        /\ p.y # 0 => is_odd(p.y) = arg.bit
        /\ p.y = 0 => (arg.x * arg.x + 1) % FrModulus = 0

\* C10 witness: rand returned a point with odd y for a set bit.
C10_Witness ==
    /\ op = "rand"
    /\ arg.bit
    /\ arg.x # 0
    /\ p.y # 0
    /\ is_odd(p.y)

(***************************************************************************)
(* SpecAssoc: add applied to three points P, Q, R of one tag, each in a    *)
(* scaling of 1 .. MaxScale: arg holds the inputs, out the four sums.      *)
(***************************************************************************)
InitAssoc ==
    /\ \E tag \in Tags :
          \E P \in ScaledPoints(tag, 1 .. MaxScale),
             Q \in ScaledPoints(tag, 1 .. MaxScale),
             R \in ScaledPoints(tag, 1 .. MaxScale) :
                /\ arg = [P |-> P, Q |-> Q, R |-> R]
                /\ p = P
    /\ op = "inputs"
    /\ out = NoOut

AddThree ==
    /\ op = "inputs"
    /\ out' = [pq |-> add(arg.P, arg.Q),
               qp |-> add(arg.Q, arg.P),
               pq_r |-> add(add(arg.P, arg.Q), arg.R),
               p_qr |-> add(arg.P, add(arg.Q, arg.R))]
    /\ op' = "add"
    /\ UNCHANGED <<p, arg>>

SpecAssoc == InitAssoc /\ [][AddThree]_vars

\* C4: add is commutative and associative under point equality, for curve
\* points in any scaling.
C4_AddCommutativeAssociative ==
    op = "add" =>
        /\ eq(out.pq, out.qp)
        /\ eq(out.pq_r, out.p_qr)

\* C4 witness: three pairwise different non-identity points in different
\* scalings, whose two bracketings differ as coordinate quadruples.
C4_Witness ==
    /\ op = "add"
    /\ ~eq(arg.P, arg.Q) /\ ~eq(arg.Q, arg.R) /\ ~eq(arg.P, arg.R)
    /\ ~eq(arg.P, zero(arg.P.tag))
    /\ ~eq(arg.Q, zero(arg.P.tag))
    /\ ~eq(arg.R, zero(arg.P.tag))
    /\ arg.P.z # arg.R.z
    /\ out.pq_r # out.p_qr

(***************************************************************************)
(* SpecInverse: negate and add applied to a point P.                       *)
(***************************************************************************)
InitInverse ==
    /\ \E tag \in Tags : \E P \in Points(tag) :
          /\ arg = P
          /\ p = P
    /\ op = "inputs"
    /\ out = NoOut

AddNegate ==
    /\ op = "inputs"
    /\ out' = [neg |-> negate(arg), sum |-> add(arg, negate(arg))]
    /\ op' = "negate"
    /\ UNCHANGED <<p, arg>>

SpecInverse == InitInverse /\ [][AddNegate]_vars

\* C5: add(P, negate(P)) equals zero = (0, 1, 0, 1), where negate(P) is
\* (-X, Y, -T, Z).
C5_InverseLaw ==
    op = "negate" =>
        /\ out.neg = Point((FrModulus - arg.x) % FrModulus, arg.y,
                           (FrModulus - arg.t) % FrModulus, arg.z, arg.tag)
        /\ zero(arg.tag) = Point(0, 1, 0, 1, arg.tag)
        /\ eq(out.sum, zero(arg.tag))

\* C5 witness: the law applied to a scaled point with non-zero X and T,
\* the sum being the identity in another scaling than (0, 1, 0, 1).
C5_Witness ==
    /\ op = "negate"
    /\ arg.x # 0
    /\ arg.t # 0
    /\ arg.z # 1
    /\ out.sum # zero(arg.tag)

(***************************************************************************)
(* SpecDistrib: mul and add applied to a point P and scalars a, b.  The    *)
(* sum of the scalars is reduced modulo the subgroup order for a           *)
(* PrimeOrder point; for an Unknown point it is the plain sum, which has   *)
(* to fit the scalar representation.                                       *)
(***************************************************************************)
ScalarSum(tag, a, b) == IF tag = "PrimeOrder" THEN (a + b) % FsChar ELSE a + b

InitDistrib ==
    /\ \E tag \in Tags : \E P \in Points(tag) : \E a \in Scalars, b \in Scalars :
          /\ ScalarSum(tag, a, b) \in Scalars
          /\ arg = [P |-> P, a |-> a, b |-> b]
          /\ p = P
    /\ op = "inputs"
    /\ out = NoOut

MulSum ==
    /\ op = "inputs"
    /\ out' = [lhs |-> mul(arg.P, ScalarSum(arg.P.tag, arg.a, arg.b)),
               rhs |-> add(mul(arg.P, arg.a), mul(arg.P, arg.b))]
    /\ op' = "mul"
    /\ UNCHANGED <<p, arg>>

SpecDistrib == InitDistrib /\ [][MulSum]_vars

\* C6: mul(P, a+b) equals add(mul(P, a), mul(P, b)) for points of either
\* tag, a+b being taken modulo the subgroup order when P is PrimeOrder.
C6_MulDistributes ==
    op = "mul" => eq(out.lhs, out.rhs)

\* C6 witness: a PrimeOrder point other than the identity and two
\* non-zero scalars whose sum is reduced to a non-zero scalar.
C6_Witness ==
    /\ op = "mul"
    /\ arg.P.tag = "PrimeOrder"
    /\ ~eq(arg.P, zero(arg.P.tag))
    /\ arg.a > 0
    /\ arg.b > 0
    /\ arg.a + arg.b > FsChar
    /\ (arg.a + arg.b) % FsChar # 0
    /\ ~eq(out.lhs, zero(arg.P.tag))

(***************************************************************************)
(* SpecEq: eq and into_xy applied to two points of one tag.                *)
(***************************************************************************)
InitEq ==
    /\ \E tag \in Tags : \E P1 \in Points(tag), P2 \in Points(tag) :
          /\ arg = [P1 |-> P1, P2 |-> P2]
          /\ p = P1
    /\ op = "inputs"
    /\ out = NoOut

Compare ==
    /\ op = "inputs"
    /\ out' = [eq |-> eq(arg.P1, arg.P2),
               xy1 |-> into_xy(arg.P1),
               xy2 |-> into_xy(arg.P2)]
    /\ op' = "eq"
    /\ UNCHANGED <<p, arg>>

SpecEq == InitEq /\ [][Compare]_vars

\* P2 is P1 with all four coordinates multiplied by l
IsScaling(P1, P2, l) ==
    /\ P2.x = (P1.x * l) % FrModulus
    /\ P2.y = (P1.y * l) % FrModulus
    /\ P2.t = (P1.t * l) % FrModulus
    /\ P2.z = (P1.z * l) % FrModulus

\* C7: for points with non-zero Z, P1 == P2 holds exactly when the affine
\* images (X1/Z1, Y1/Z1) and (X2/Z2, Y2/Z2) are equal; a point scaled by a
\* non-zero field element equals the original.
C7_EqIsAffineEquality ==
    op = "eq" =>
        /\ out.eq <=> (arg.P1.x * arg.P2.z) % FrModulus = (arg.P2.x * arg.P1.z) % FrModulus
                      /\ (arg.P1.y * arg.P2.z) % FrModulus = (arg.P2.y * arg.P1.z) % FrModulus
        /\ ~out.xy1.panicked /\ ~out.xy2.panicked
        /\ out.eq <=> (out.xy1 = out.xy2)
        /\ (\E l \in 1 .. (FrModulus - 1) : IsScaling(arg.P1, arg.P2, l)) => out.eq

\* C7 witness: two different quadruples of one affine point compared equal.
C7_Witness ==
    /\ op = "eq"
    /\ out.eq
    /\ arg.P1 # arg.P2
    /\ arg.P1.z # 1
    /\ arg.P2.z # 1
    /\ arg.P1.x # 0

(***************************************************************************)
(* SpecMul: the loop of mul run one iteration at a time on a point P and   *)
(* a scalar: out holds the accumulator res, the number i of bits consumed  *)
(* and the doubles and adds performed so far.                              *)
(***************************************************************************)
InitMul ==
    /\ \E tag \in Tags : \E P \in Points(tag) : \E scalar \in Scalars :
          /\ arg = [P |-> P, scalar |-> scalar]
          /\ p = P
          /\ out = [res |-> zero(tag), i |-> 0, doubles |-> 0, adds |-> 0]
    /\ op = "mul_loop"

MulIter ==
    /\ op = "mul_loop"
    /\ out.i < ScalarBits
    /\ LET b == BitIterator(arg.scalar)[out.i + 1]
       IN  out' = [res |-> mul_iter(out.res, arg.P, b),
                   i |-> out.i + 1,
                   doubles |-> out.doubles + 1,
                   adds |-> out.adds + (IF b THEN 1 ELSE 0)]
    /\ UNCHANGED <<p, op, arg>>

MulReturn ==
    /\ op = "mul_loop"
    /\ out.i = ScalarBits
    /\ p' = out.res
    /\ op' = "mul"
    /\ UNCHANGED <<arg, out>>

NextMul ==
    \/ MulIter
    \/ MulReturn

SpecMul == InitMul /\ [][NextMul]_vars

RECURSIVE PopCount(_)
PopCount(k) == IF k = 0 THEN 0 ELSE (k % 2) + PopCount(k \div 2)

\* C9: mul starts from the identity and, for each bit of the fixed-width
\* representation from the most significant on, doubles once and adds P
\* only when the bit is set; the result is the k-fold sum of P under add
\* (the identity for k = 0).
C9_MulIsDoubleAndAdd ==
    /\ op = "mul_loop" =>
          /\ out.i = 0 => out.res = Point(0, 1, 0, 1, arg.P.tag)
          /\ out.doubles = out.i
          /\ out.adds = PopCount(arg.scalar \div (2 ^ (ScalarBits - out.i)))
          /\ eq(out.res, KFold(arg.P, arg.scalar \div (2 ^ (ScalarBits - out.i))))
    /\ op = "mul" =>
          /\ out.doubles = ScalarBits
          /\ out.adds = PopCount(arg.scalar)
          /\ eq(p, KFold(arg.P, arg.scalar))
          /\ p = mul(arg.P, arg.scalar)
          /\ arg.scalar = 0 => eq(p, zero(p.tag))

\* C9 witness: mul returned for a scalar with a leading zero bit, a set
\* and a clear bit below it, on a point outside the prime-order subgroup.
C9_Witness ==
    /\ op = "mul"
    /\ arg.scalar > 1
    /\ arg.scalar < 2 ^ (ScalarBits - 1)
    /\ arg.scalar % 2 = 0
    /\ ~InPrimeSubgroup(arg.P)
    /\ ~eq(p, zero(p.tag))
    /\ ~eq(p, arg.P)

=============================================================================
